---- MODULE Spec2Model ----
(***************************************************************************)
(* FlavorGraphAI: the ingredient co-occurrence graph built by build_graph  *)
(* and the neighbour scorer suggest_neighbors_scored                       *)
(* (src/src/flavorgraph_ai.py).                                            *)
(*                                                                         *)
(* Python strings are sequences of one-character strings, Python floats    *)
(* are exact rationals [n, d] in lowest terms, Python dicts keep their     *)
(* insertion order as a sequence of keys beside the mapping.               *)
(***************************************************************************)
EXTENDS Integers, Sequences, FiniteSets, TLC

(***************************************************************************)
(* Bounds of the model.                                                    *)
(***************************************************************************)
\* longest dataset the record source yields
MaxRows == 3
\* longest dataset of the specification with queries
MaxScoreRows == 2
\* longest base_ings list of a query
MaxBase == 2
\* largest top_k of a query
MaxTopK == 2
\* largest min_cooc of a query
MaxMinCooc == 2
\* the longest base list of a query of SpecDup
MaxDupBase == 3
\* the longest raw ingredient string of the rows of SpecNorm
MaxLen == 3

(***************************************************************************)
(* Strings.                                                                *)
(***************************************************************************)
Whitespace == {" ", "\t", "\n"}

UpperChars == <<"A", "B", "C", "D", "E", "F", "G", "H", "I", "J", "K", "L", "M",
                "N", "O", "P", "Q", "R", "S", "T", "U", "V", "W", "X", "Y", "Z">>

LowerChars == <<"a", "b", "c", "d", "e", "f", "g", "h", "i", "j", "k", "l", "m",
                "n", "o", "p", "q", "r", "s", "t", "u", "v", "w", "x", "y", "z">>

\* the characters of the strings of the model
Chars ==
    {UpperChars[k] : k \in 1..26} \cup {LowerChars[k] : k \in 1..26} \cup Whitespace
    \cup {"0", "1", "2", "3", "4", "5", "6", "7", "8", "9", "."}

\* str.lower() on one character
LowerChar ==
    [c \in Chars |->
        IF \E k \in 1..26 : UpperChars[k] = c
        THEN LowerChars[CHOOSE k \in 1..26 : UpperChars[k] = c]
        ELSE c]

\* str.lower()
lower(s) == [k \in 1..Len(s) |-> LowerChar[s[k]]]

\* str.strip(): drop the leading and the trailing whitespace
strip(s) ==
    LET keep == {k \in 1..Len(s) : s[k] \notin Whitespace}
    IN  IF keep = {} THEN <<>>
        ELSE LET lo == CHOOSE k \in keep : \A j \in keep : k <= j
                 hi == CHOOSE k \in keep : \A j \in keep : k >= j
             IN  SubSeq(s, lo, hi)

\* a plausible slip: lower-casing without trimming
normalize_ing_nostrip(name) == lower(name)

normalize_ing(name) == lower(strip(name))

(***************************************************************************)
(* Floats, as exact rationals in lowest terms.                             *)
(***************************************************************************)
RECURSIVE GCD(_, _)
GCD(a, b) == IF b = 0 THEN a ELSE GCD(b, a % b)

Frac(n, d) == LET g == GCD(n, d) IN [n |-> n \div g, d |-> d \div g]

Zero == [n |-> 0, d |-> 1]

One == [n |-> 1, d |-> 1]

RatAdd(x, y) == Frac(x.n * y.d + y.n * x.d, x.d * y.d)

RatMul(x, y) == Frac(x.n * y.n, x.d * y.d)

RatDiv(x, y) == Frac(x.n * y.d, x.d * y.n)

RatLess(x, y) == x.n * y.d < y.n * x.d

RatLeq(x, y) == x.n * y.d <= y.n * x.d

FromInt(k) == [n |-> k, d |-> 1]

(***************************************************************************)
(* Field values of a dataset row (row.get("AggregatedRating"),             *)
(* row.get("Calories")): None, a float, a string, or a value of another    *)
(* type.                                                                   *)
(***************************************************************************)
None == [type |-> "NoneType", val |-> Zero, str |-> <<>>]

Float(n, d) == [type |-> "float", val |-> Frac(n, d), str |-> <<>>]

Str(s) == [type |-> "str", val |-> Zero, str |-> s]

List == [type |-> "list", val |-> Zero, str |-> <<>>]

Digits == <<"0", "1", "2", "3", "4", "5", "6", "7", "8", "9">>

IsDigit(c) == \E k \in 1..10 : Digits[k] = c

DigitVal(c) == (CHOOSE k \in 1..10 : Digits[k] = c) - 1

RECURSIVE Pow10(_)
Pow10(k) == IF k = 0 THEN 1 ELSE 10 * Pow10(k - 1)

RECURSIVE DigitsVal(_)
DigitsVal(s) ==
    IF s = <<>> THEN 0
    ELSE 10 * DigitsVal(SubSeq(s, 1, Len(s) - 1)) + DigitVal(s[Len(s)])

\* the decimal literals float() parses here: digits, optionally "." and digits,
\* with surrounding whitespace
IsDecimal(s) ==
    LET dots == {k \in 1..Len(s) : s[k] = "."}
    IN  /\ s # <<>>
        /\ \A k \in 1..Len(s) : IsDigit(s[k]) \/ s[k] = "."
        /\ Cardinality(dots) <= 1
        /\ \E k \in 1..Len(s) : IsDigit(s[k])

DecimalVal(s) ==
    LET dots == {k \in 1..Len(s) : s[k] = "."}
    IN  IF dots = {} THEN FromInt(DigitsVal(s))
        ELSE LET p == CHOOSE k \in dots : TRUE
                 frac == SubSeq(s, p + 1, Len(s))
             IN  Frac(DigitsVal(SubSeq(s, 1, p - 1) \o frac), Pow10(Len(frac)))

\* float(x): the value, or the exception it raises
float(x) ==
    CASE x.type = "float" -> [raises |-> "no", val |-> x.val]
      [] x.type = "str" ->
            IF IsDecimal(strip(x.str))
            THEN [raises |-> "no", val |-> DecimalVal(strip(x.str))]
            ELSE [raises |-> "ValueError", val |-> Zero]
      [] OTHER -> [raises |-> "TypeError", val |-> Zero]

(***************************************************************************)
(* Dataset rows.  "parts" is the list r_vector_to_list returns for the     *)
(* row's RecipeIngredientParts (a list of strings).                        *)
(***************************************************************************)
chicken == <<"c", "h", "i", "c", "k", "e", "n">>

garlic == <<"g", "a", "r", "l", "i", "c">>

lemon == <<"l", "e", "m", "o", "n">>

rice == <<"r", "i", "c", "e">>

salt == <<"s", "a", "l", "t">>

\* " Chicken "
ChickenRaw == <<" ", "C", "h", "i", "c", "k", "e", "n", " ">>

\* "RICE"
RiceRaw == <<"R", "I", "C", "E">>

\* "tofu": never an ingredient of the sample rows
tofu == <<"t", "o", "f", "u">>

Row(parts, rating, calories) ==
    [parts |-> parts, AggregatedRating |-> rating, Calories |-> calories]

\* the three recipes of the end-to-end scenario
E2E == << Row(<<chicken, garlic, lemon>>, Float(9, 2), Float(300, 1)),
          Row(<<chicken, garlic>>, Float(4, 1), Float(250, 1)),
          Row(<<chicken, rice>>, Float(3, 1), Float(500, 1)) >>

\* the rows the record source may yield
Recipes ==
    { E2E[1], E2E[2], E2E[3],
      Row(<<salt, salt>>, Float(5, 1), Float(100, 1)),
      Row(<<garlic>>, Float(4, 1), Float(50, 1)),
      Row(<<>>, Float(4, 1), Float(50, 1)),
      Row(<<<<>>, salt>>, Float(2, 1), Float(10, 1)),
      Row(<<ChickenRaw, RiceRaw, chicken>>, None, Str(<<"a", "b", "c">>)),
      Row(<<rice, garlic>>, Str(<<"4", ".", "5">>), List),
      Row(<<lemon, garlic>>, Str(<<"a", "b", "c">>), Float(120, 1)),
      Row(<<lemon, rice>>, Float(0, 1), None) }

(***************************************************************************)
(* The graph: G.node maps a node to its attribute dict, G.adj maps a node  *)
(* to its neighbours in insertion order, G.edge maps (a, b) to the         *)
(* attribute dict of the edge; nx.Graph stores one dict per edge under     *)
(* both (a, b) and (b, a).                                                 *)
(***************************************************************************)
EmptyGraph == [node |-> <<>>, adj |-> <<>>, edge |-> <<>>]

has_node(g, n) == n \in DOMAIN g.node

has_edge(g, a, b) == <<a, b>> \in DOMAIN g.edge

\* G.add_node(ing, count=0, rating_sum=0.0, cal_sum=0.0), ing not yet a node
add_node(g, ing) ==
    [g EXCEPT !.node = (ing :> [count |-> 0, rating_sum |-> Zero, cal_sum |-> Zero]) @@ @,
              !.adj = (ing :> <<>>) @@ @]

\* a plausible slip: only the (a, b) direction of the edge is written
set_edge_oneway(g, a, b, data) ==
    [g EXCEPT !.edge = (<<a, b>> :> data) @@ @]

\* the attribute dict shared by (a, b) and (b, a) becomes data
set_edge(g, a, b, data) ==
    [g EXCEPT !.edge = (<<a, b>> :> data) @@ (<<b, a>> :> data) @@ @]

\* G.add_edge(a, b, cooc=1, rating_sum=0.0, cal_sum=0.0), a and b nodes, no edge yet
add_edge(g, a, b) ==
    set_edge([g EXCEPT !.adj[a] = Append(@, b), !.adj[b] = Append(@, a)],
             a, b, [cooc |-> 1, rating_sum |-> Zero, cal_sum |-> Zero])

\* if x is not None: try: sum += float(x) except (TypeError, ValueError): pass
accumulate(sum, x) ==
    IF x.type # "NoneType"
    THEN IF float(x).raises = "no" THEN RatAdd(sum, float(x).val) ELSE sum
    ELSE sum

\* a plausible slip: both sums under one try, so that a rating float() rejects
\* also loses the calories
update_node_one_try(g, ing, rating, calories) ==
    LET g1 == IF has_node(g, ing) THEN g ELSE add_node(g, ing)
        ok == rating.type = "NoneType" \/ float(rating).raises = "no"
    IN  [g1 EXCEPT !.node[ing].count = @ + 1,
                   !.node[ing].rating_sum = accumulate(@, rating),
                   !.node[ing].cal_sum = IF ok THEN accumulate(@, calories) ELSE @]

\* one round of the node loop
update_node(g, ing, rating, calories) ==
    LET g1 == IF has_node(g, ing) THEN g ELSE add_node(g, ing)
    IN  [g1 EXCEPT !.node[ing].count = @ + 1,
                   !.node[ing].rating_sum = accumulate(@, rating),
                   !.node[ing].cal_sum = accumulate(@, calories)]

\* one round of the edge loop
update_edge(g, a, b, rating, calories) ==
    LET g1 == IF has_edge(g, a, b)
              THEN set_edge(g, a, b, [g.edge[<<a, b>>] EXCEPT !.cooc = @ + 1])
              ELSE add_edge(g, a, b)
        d1 == g1.edge[<<a, b>>]
    IN  set_edge(g1, a, b, [d1 EXCEPT !.rating_sum = accumulate(@, rating),
                                      !.cal_sum = accumulate(@, calories)])

\* a plausible slip: itertools.combinations_with_replacement(u, 2), which
\* pairs every element with itself too
combinations2_with_replacement(u) ==
    LET RECURSIVE from(_, _)
        from(a, b) ==
            IF a > Len(u) THEN <<>>
            ELSE IF b > Len(u) THEN from(a + 1, a + 1)
            ELSE <<<<u[a], u[b]>>>> \o from(a, b + 1)
    IN  from(1, 1)

\* itertools.combinations(u, 2), in the order it yields the pairs
combinations2(u) ==
    LET RECURSIVE from(_, _)
        from(a, b) ==
            IF a >= Len(u) THEN <<>>
            ELSE IF b > Len(u) THEN from(a + 1, a + 2)
            ELSE <<<<u[a], u[b]>>>> \o from(a, b + 1)
    IN  from(1, 2)

\* the orders list(set(ingredients)) may come in
Orders(S) ==
    {u \in [1..Cardinality(S) -> S] : \A x \in S : \E k \in 1..Cardinality(S) : u[k] = x}

Range(s) == {s[k] : k \in 1..Len(s)}

RECURSIVE node_loop(_, _, _, _)
node_loop(g, u, rating, calories) ==
    IF u = <<>> THEN g
    ELSE node_loop(update_node(g, Head(u), rating, calories), Tail(u), rating, calories)

RECURSIVE edge_loop(_, _, _, _)
edge_loop(g, pairs, rating, calories) ==
    IF pairs = <<>> THEN g
    ELSE edge_loop(update_edge(g, Head(pairs)[1], Head(pairs)[2], rating, calories),
                   Tail(pairs), rating, calories)

\* a plausible slip: the list is not deduplicated
unique_nodedup(ingredients) == {ingredients}

\* the lists list(set(ingredients)) may be
unique(ingredients) == Orders(Range(ingredients))

\* a plausible slip: a recipe of a single distinct ingredient is not skipped
add_recipe_noskip(g, unique_ings, rating, calories) ==
    edge_loop(node_loop(g, unique_ings, rating, calories),
              combinations2(unique_ings), rating, calories)

\* add_recipe_to_graph, with unique_ings the list list(set(ingredients)) came out as
add_recipe_to_graph(g, unique_ings, rating, calories) ==
    IF Len(unique_ings) < 2 THEN g
    ELSE edge_loop(node_loop(g, unique_ings, rating, calories),
                   combinations2(unique_ings), rating, calories)

\* select the elements of a sequence, keeping their order
RECURSIVE Filter(_, _)
Filter(s, keep) ==
    IF s = <<>> THEN <<>>
    ELSE (IF Head(s) \in keep THEN <<Head(s)>> ELSE <<>>) \o Filter(Tail(s), keep)

\* [normalize_ing(p) for p in parts if p and isinstance(p, str)]
get_ingredients(row) ==
    LET kept == Filter(row.parts, {p \in Range(row.parts) : p # <<>>})
    IN  [k \in 1..Len(kept) |-> normalize_ing(kept[k])]

\* a plausible slip: the average of the ratings taken from the calories
finalize_node_swapped(data) ==
    LET c == data.count
    IN  [avg_rating |-> IF data.cal_sum # Zero
                        THEN RatDiv(data.cal_sum, FromInt(c)) ELSE Zero,
         avg_calories |-> IF data.cal_sum # Zero
                          THEN RatDiv(data.cal_sum, FromInt(c)) ELSE Zero] @@ data

\* the finalization of one node's attribute dict
finalize_node(data) ==
    LET c == data.count
    IN  IF c > 0
        THEN [avg_rating |-> IF data.rating_sum # Zero
                             THEN RatDiv(data.rating_sum, FromInt(c)) ELSE Zero,
              avg_calories |-> IF data.cal_sum # Zero
                               THEN RatDiv(data.cal_sum, FromInt(c)) ELSE Zero] @@ data
        ELSE [avg_rating |-> Zero, avg_calories |-> Zero] @@ data

(***************************************************************************)
(* State.                                                                  *)
(***************************************************************************)
VARIABLES
    G,            \* the graph of build_graph
    rows,         \* the rows enumerate(ds) has yielded so far
    max_recipes,  \* the argument of build_graph
    pc,           \* "loop", "finalize", "built" or "answered"
    query,        \* the arguments of the last suggest_neighbors_scored call
    result        \* what that call returned

vars == <<G, rows, max_recipes, pc, query, result>>

NoQuery == [base_ings |-> <<>>, goal |-> "", top_k |-> 0, min_cooc |-> 0, asked |-> FALSE]

\* the rows whose index is below the cap
Consumed == SubSeq(rows, 1, IF Len(rows) < max_recipes THEN Len(rows) ELSE max_recipes)

Init ==
    /\ G = EmptyGraph
    /\ rows = <<>>
    /\ max_recipes \in 0..MaxRows
    /\ pc = "loop"
    /\ query = NoQuery
    /\ result = <<>>

\* a plausible slip: the test i > max_recipes
reached_cap_late(i, cap) == i > cap

\* i >= max_recipes
reached_cap(i, cap) == i >= cap

\* enumerate(ds) is exhausted: the loop ends
StopIteration(exhausted) ==
    /\ pc = "loop"
    /\ exhausted
    /\ pc' = "finalize"
    /\ UNCHANGED <<G, rows, max_recipes, query, result>>

\* the row of index i >= max_recipes: break
Break(next) ==
    /\ pc = "loop"
    /\ reached_cap(Len(rows), max_recipes)
    /\ \E row \in next :
          rows' = Append(rows, row)
    /\ pc' = "finalize"
    /\ UNCHANGED <<G, max_recipes, query, result>>

\* a row with len(ings) < 2: continue
Continue(next) ==
    /\ pc = "loop"
    /\ ~reached_cap(Len(rows), max_recipes)
    /\ \E row \in next :
          /\ Len(get_ingredients(row)) < 2
          /\ rows' = Append(rows, row)
    /\ UNCHANGED <<G, max_recipes, pc, query, result>>

\* a row handed to add_recipe_to_graph
AddRecipe(next) ==
    /\ pc = "loop"
    /\ ~reached_cap(Len(rows), max_recipes)
    /\ \E row \in next :
          /\ Len(get_ingredients(row)) >= 2
          /\ rows' = Append(rows, row)
          /\ \E unique_ings \in unique(get_ingredients(row)) :
                G' = add_recipe_to_graph(G, unique_ings, row.AggregatedRating, row.Calories)
    /\ UNCHANGED <<max_recipes, pc, query, result>>

\* the pass over G.nodes(data=True) that sets avg_rating and avg_calories
Finalize ==
    /\ pc = "finalize"
    /\ G' = [G EXCEPT !.node = [n \in DOMAIN G.node |-> finalize_node(G.node[n])]]
    /\ pc' = "built"
    /\ UNCHANGED <<rows, max_recipes, query, result>>

(***************************************************************************)
(* suggest_neighbors_scored.  scores is the dict, as the sequence of its   *)
(* (key, value) items in insertion order.                                  *)
(***************************************************************************)
\* d.get(key, default) on an attribute dict
get(data, key, default) == IF key \in DOMAIN data THEN data[key] ELSE default

has_key(scores, key) == \E k \in 1..Len(scores) : scores[k][1] = key

\* scores.get(key, 0.0)
scores_get(scores, key) ==
    IF has_key(scores, key)
    THEN scores[CHOOSE k \in 1..Len(scores) : scores[k][1] = key][2]
    ELSE Zero

\* scores[key] = value: an existing key keeps its place, a new one goes last
scores_set(scores, key, value) ==
    IF has_key(scores, key)
    THEN [k \in 1..Len(scores) |-> IF scores[k][1] = key THEN <<key, value>> ELSE scores[k]]
    ELSE Append(scores, <<key, value>>)

\* scores.pop(key, None)
RECURSIVE scores_pop(_, _)
scores_pop(scores, key) ==
    IF scores = <<>> THEN <<>>
    ELSE (IF Head(scores)[1] = key THEN <<>> ELSE <<Head(scores)>>)
         \o scores_pop(Tail(scores), key)

\* a plausible slip: the healthy boost without its reciprocal
contribution_noreciprocal(goal, cooc, node) ==
    LET base_score == FromInt(cooc)
        rating == get(node, "avg_rating", Zero)
        cal == get(node, "avg_calories", Zero)
    IN  IF goal = "high_rating"
        THEN RatMul(base_score, RatAdd(One, RatDiv(rating, FromInt(5))))
        ELSE IF goal = "healthy"
        THEN RatMul(base_score, RatAdd(One, RatAdd(One, RatDiv(cal, FromInt(200)))))
        ELSE base_score

\* a plausible slip: the goal compared without regard to case
contribution_anycase(goal, cooc, node) ==
    LET base_score == FromInt(cooc)
        rating == get(node, "avg_rating", Zero)
        cal == get(node, "avg_calories", Zero)
    IN  IF goal = "high_rating"
        THEN RatMul(base_score, RatAdd(One, RatDiv(rating, FromInt(5))))
        ELSE IF goal \in {"healthy", "Healthy"}
        THEN RatMul(base_score,
                    RatAdd(One, RatDiv(One, RatAdd(One, RatDiv(cal, FromInt(200))))))
        ELSE base_score

\* the score one edge contributes under the goal
contribution(goal, cooc, node) ==
    LET base_score == FromInt(cooc)
        rating == get(node, "avg_rating", Zero)
        cal == get(node, "avg_calories", Zero)
    IN  IF goal = "high_rating"
        THEN RatMul(base_score, RatAdd(One, RatDiv(rating, FromInt(5))))
        ELSE IF goal = "healthy"
        THEN RatMul(base_score,
                    RatAdd(One, RatDiv(One, RatAdd(One, RatDiv(cal, FromInt(200))))))
        ELSE base_score

\* a plausible slip: the threshold test is dropped
passes_always(cooc, min_cooc) == TRUE

\* not (cooc < min_cooc)
passes(cooc, min_cooc) == ~(cooc < min_cooc)

\* a plausible slip: the best contribution is kept, not the sum
add_score_max(old, score) == IF RatLess(old, score) THEN score ELSE old

\* scores.get(neigh, 0.0) + score
add_score(old, score) == RatAdd(old, score)

\* the inner loop: the neighbours of ing, in adjacency order
RECURSIVE neighbor_loop(_, _, _, _, _, _)
neighbor_loop(g, ing, neighs, goal, min_cooc, scores) ==
    IF neighs = <<>> THEN scores
    ELSE LET neigh == Head(neighs)
             cooc == get(g.edge[<<ing, neigh>>], "cooc", 0)
             next == IF passes(cooc, min_cooc)
                     THEN scores_set(scores, neigh,
                                     add_score(scores_get(scores, neigh),
                                               contribution(goal, cooc, g.node[neigh])))
                     ELSE scores
         IN  neighbor_loop(g, ing, Tail(neighs), goal, min_cooc, next)

\* a plausible slip: the loop ends at a base ingredient the graph lacks
RECURSIVE base_loop_break(_, _, _, _, _)
base_loop_break(g, base, goal, min_cooc, scores) ==
    IF base = <<>> THEN scores
    ELSE LET ing == Head(base)
         IN  IF ~has_node(g, ing) THEN scores
             ELSE base_loop_break(g, Tail(base), goal, min_cooc,
                                  neighbor_loop(g, ing, g.adj[ing], goal, min_cooc, scores))

\* the outer loop: the base ingredients, in the given order
RECURSIVE base_loop(_, _, _, _, _)
base_loop(g, base, goal, min_cooc, scores) ==
    IF base = <<>> THEN scores
    ELSE LET ing == Head(base)
             next == IF ~has_node(g, ing) THEN scores
                     ELSE neighbor_loop(g, ing, g.adj[ing], goal, min_cooc, scores)
         IN  base_loop(g, Tail(base), goal, min_cooc, next)

\* a plausible slip: the base ingredients stay among the candidates
remove_base_none(scores, base) == scores

\* for b in base_ings_norm: scores.pop(b, None)
RECURSIVE remove_base(_, _)
remove_base(scores, base) ==
    IF base = <<>> THEN scores
    ELSE remove_base(scores_pop(scores, Head(base)), Tail(base))

\* put item behind the items of an already sorted list that score as much or more
RECURSIVE insert(_, _)
insert(sorted, item) ==
    IF sorted = <<>> THEN <<item>>
    ELSE IF RatLess(Head(sorted)[2], item[2]) THEN <<item>> \o sorted
    ELSE <<Head(sorted)>> \o insert(Tail(sorted), item)

\* a plausible slip: an ascending sort
RECURSIVE insert_ascending(_, _)
insert_ascending(sorted, item) ==
    IF sorted = <<>> THEN <<item>>
    ELSE IF RatLess(item[2], Head(sorted)[2]) THEN <<item>> \o sorted
    ELSE <<Head(sorted)>> \o insert_ascending(Tail(sorted), item)

RECURSIVE sorted_ascending(_)
sorted_ascending(scores) ==
    IF scores = <<>> THEN <<>>
    ELSE insert_ascending(sorted_ascending(SubSeq(scores, 1, Len(scores) - 1)),
                          scores[Len(scores)])

\* a plausible slip: a sort that puts the later of two equal scores first
RECURSIVE insert_ties_first(_, _)
insert_ties_first(sorted, item) ==
    IF sorted = <<>> THEN <<item>>
    ELSE IF RatLeq(Head(sorted)[2], item[2]) THEN <<item>> \o sorted
    ELSE <<Head(sorted)>> \o insert_ties_first(Tail(sorted), item)

RECURSIVE sorted_ties_reversed(_)
sorted_ties_reversed(scores) ==
    IF scores = <<>> THEN <<>>
    ELSE insert_ties_first(sorted_ties_reversed(SubSeq(scores, 1, Len(scores) - 1)),
                           scores[Len(scores)])

\* sorted(scores.items(), key=lambda x: -x[1]): stable, highest score first
RECURSIVE sorted(_)
sorted(scores) ==
    IF scores = <<>> THEN <<>>
    ELSE insert(sorted(SubSeq(scores, 1, Len(scores) - 1)), scores[Len(scores)])

\* a plausible slip: the slice is left out
slice_all(s, k) == s

\* s[:k]
slice(s, k) ==
    LET stop == IF k >= 0 THEN (IF k < Len(s) THEN k ELSE Len(s))
                ELSE (IF Len(s) + k > 0 THEN Len(s) + k ELSE 0)
    IN  SubSeq(s, 1, stop)

\* the scores dict when the loops are done and the base ingredients removed
final_scores(g, base_ings, goal, min_cooc) ==
    LET base_ings_norm == [k \in 1..Len(base_ings) |-> normalize_ing(base_ings[k])]
    IN  remove_base(base_loop(g, base_ings_norm, goal, min_cooc, <<>>), base_ings_norm)

suggest_neighbors_scored(g, base_ings, goal, top_k, min_cooc) ==
    LET ranked == sorted(final_scores(g, base_ings, goal, min_cooc))
        top == slice(ranked, top_k)
    IN  [k \in 1..Len(top) |-> top[k][1]]

\* the goal strings of a query: the three modes and two that are none of them
Goals == {"default", "high_rating", "healthy", "Healthy", ""}

\* the raw base ingredient names of a query
BaseNames == {chicken, ChickenRaw, garlic, tofu}

\* the normalized name of every raw base ingredient name
NormOf == [b \in BaseNames |-> normalize_ing(b)]

BaseLists == UNION {[1..n -> BaseNames] : n \in 0..MaxBase}

\* a plausible slip: a lookup that inserts the key it misses, as a defaultdict
\* does
RECURSIVE lookups_insert(_, _)
lookups_insert(g, base_ings) ==
    IF base_ings = <<>> THEN g
    ELSE LET ing == normalize_ing(Head(base_ings))
         IN  lookups_insert(IF has_node(g, ing) THEN g
                            ELSE [g EXCEPT !.node = (ing :> <<>>) @@ @,
                                           !.adj = (ing :> <<>>) @@ @],
                            Tail(base_ings))

\* the graph after the lookups of a call (ing not in G, G[ing].items(),
\* data.get, G.nodes[neigh], node.get): they read and write nothing
lookups(g, base_ings) == g

\* a call suggest_neighbors_scored(G, base_ings, goal, top_k, min_cooc)
Answer(bases) ==
    /\ \E base_ings \in bases, goal \in Goals,
          top_k \in 0..MaxTopK, min_cooc \in 1..MaxMinCooc :
          /\ query' = [base_ings |-> base_ings, goal |-> goal, top_k |-> top_k,
                       min_cooc |-> min_cooc, asked |-> TRUE]
          /\ result' = suggest_neighbors_scored(G, base_ings, goal, top_k, min_cooc)
          /\ G' = lookups(G, base_ings)
    /\ pc' = "answered"
    /\ UNCHANGED <<rows, max_recipes>>

\* the first call of suggest_neighbors_scored on the built graph
Query ==
    /\ pc = "built"
    /\ Answer(BaseLists)

(***************************************************************************)
(* Spec: build_graph on any dataset of at most MaxRows rows of Recipes.    *)
(***************************************************************************)
AnyNext == IF Len(rows) < MaxRows THEN Recipes ELSE {}

Next ==
    \/ StopIteration(TRUE)
    \/ Break(AnyNext)
    \/ Continue(AnyNext)
    \/ AddRecipe(AnyNext)
    \/ Finalize

Spec == Init /\ [][Next]_vars

(***************************************************************************)
(* SpecScore: build_graph on any dataset of at most MaxScoreRows rows of   *)
(* ScoreRecipes, none beyond the cap, then one query.                      *)
(***************************************************************************)
ScoreRecipes == {E2E[1], E2E[2], E2E[3]}

InitScore == Init /\ max_recipes = MaxScoreRows

ScoreNext == IF Len(rows) < MaxScoreRows THEN ScoreRecipes ELSE {}

NextScore ==
    \/ StopIteration(TRUE)
    \/ AddRecipe(ScoreNext)
    \/ Finalize
    \/ Query

SpecScore == InitScore /\ [][NextScore]_vars

(***************************************************************************)
(* SpecRank: as SpecScore, the base list of the query naming no ingredient *)
(* twice.                                                                  *)
(***************************************************************************)
RankLists ==
    {b \in BaseLists :
        \A j \in 1..Len(b) : \A k \in 1..Len(b) :
           NormOf[b[j]] = NormOf[b[k]] => j = k}

QueryRank ==
    /\ pc = "built"
    /\ Answer(RankLists)

NextRank ==
    \/ StopIteration(TRUE)
    \/ AddRecipe(ScoreNext)
    \/ Finalize
    \/ QueryRank

SpecRank == InitScore /\ [][NextRank]_vars

(***************************************************************************)
(* SpecE2E: build_graph with max_recipes = 3 on the dataset of the         *)
(* end-to-end scenario, then one query.                                    *)
(***************************************************************************)
InitE2E == Init /\ max_recipes = Len(E2E)

E2ENext == IF Len(rows) < Len(E2E) THEN {E2E[Len(rows) + 1]} ELSE {}

NextE2E ==
    \/ StopIteration(Len(rows) = Len(E2E))
    \/ AddRecipe(E2ENext)
    \/ Finalize
    \/ Query

SpecE2E == InitE2E /\ [][NextE2E]_vars

(***************************************************************************)
(* SpecNorm: build_graph with max_recipes = 1 on a dataset of one row of   *)
(* two raw ingredient strings of at most MaxLen characters.                *)
(***************************************************************************)
NormChars == {" ", "a", "A"}

RawStrings == UNION {[1..n -> NormChars] : n \in 0..MaxLen}

NormRecipes == {Row(<<s, t>>, None, None) : s \in RawStrings, t \in RawStrings}

InitNorm == Init /\ max_recipes = 1

NormNext == IF Len(rows) < 1 THEN NormRecipes ELSE {}

NextNorm ==
    \/ StopIteration(Len(rows) = 1)
    \/ Continue(NormNext)
    \/ AddRecipe(NormNext)
    \/ Finalize

SpecNorm == InitNorm /\ [][NextNorm]_vars

(***************************************************************************)
(* SpecDup: build_graph with max_recipes = 3 on a dataset of three rows,   *)
(* then one query whose base list may name an ingredient more than once.   *)
(***************************************************************************)
DupRows == <<E2E[1], E2E[3], E2E[3]>>

DupNames == {chicken, ChickenRaw, garlic}

DupLists == UNION {[1..n -> DupNames] : n \in 0..MaxDupBase}

InitDup == Init /\ max_recipes = Len(DupRows)

DupNext == IF Len(rows) < Len(DupRows) THEN {DupRows[Len(rows) + 1]} ELSE {}

QueryDup ==
    /\ pc = "built"
    /\ Answer(DupLists)

NextDup ==
    \/ StopIteration(Len(rows) = Len(DupRows))
    \/ AddRecipe(DupNext)
    \/ Finalize
    \/ QueryDup

SpecDup == InitDup /\ [][NextDup]_vars

(***************************************************************************)
(* SpecRepeat: build_graph with max_recipes = 3 on the dataset of the      *)
(* end-to-end scenario, then any number of queries, one after the other.   *)
(***************************************************************************)
RepeatLists == {<<chicken>>, <<tofu>>, <<garlic, tofu>>, <<ChickenRaw, garlic>>}

QueryRepeat ==
    /\ pc = "built"
    /\ Answer(RepeatLists)

\* a further call on the graph the calls before it have left
Requery ==
    /\ pc = "answered"
    /\ Answer(RepeatLists)

NextRepeat ==
    \/ StopIteration(Len(rows) = Len(E2E))
    \/ AddRecipe(E2ENext)
    \/ Finalize
    \/ QueryRepeat
    \/ Requery

SpecRepeat == InitE2E /\ [][NextRepeat]_vars

(***************************************************************************)
(* What the dataset says, for the properties: the ingredients of a row,    *)
(* the consumed rows that contain given ingredients, sums over them.       *)
(***************************************************************************)
IngredientsOf == [r \in Recipes |-> Range(get_ingredients(r))]

Ingredients(row) == IngredientsOf[row]

Qualifies(row) == Cardinality(Ingredients(row)) >= 2

\* the consumed rows of at least two distinct ingredients that contain all of S
Containing(S) ==
    {k \in 1..Len(Consumed) : Qualifies(Consumed[k]) /\ S \subseteq Ingredients(Consumed[k])}

\* the number a field value adds to a sum: nothing when missing or not a number
Valid(x) == x.type # "NoneType" /\ float(x).raises = "no"

AmountOf ==
    [r \in Recipes |->
        [f \in {"AggregatedRating", "Calories"} |->
            IF Valid(r[f]) THEN float(r[f]).val ELSE Zero]]

Amount(row, f) == AmountOf[row][f]

RECURSIVE SumRating(_)
SumRating(K) ==
    IF K = {} THEN Zero
    ELSE LET k == CHOOSE j \in K : TRUE
         IN  RatAdd(Amount(Consumed[k], "AggregatedRating"), SumRating(K \ {k}))

RECURSIVE SumCalories(_)
SumCalories(K) ==
    IF K = {} THEN Zero
    ELSE LET k == CHOOSE j \in K : TRUE
         IN  RatAdd(Amount(Consumed[k], "Calories"), SumCalories(K \ {k}))

Names == UNION {Ingredients(r) : r \in Recipes} \cup {tofu}

Built == pc \in {"built", "answered"}

(***************************************************************************)
(* C1                                                                      *)
(***************************************************************************)
E2EQuery ==
    [base_ings |-> <<chicken>>, goal |-> "default", top_k |-> 2, min_cooc |-> 1,
     asked |-> TRUE]

E2EGraph ==
    /\ has_node(G, chicken) /\ G.node[chicken].count = 3
    /\ has_edge(G, chicken, garlic)
    /\ G.edge[<<chicken, garlic>>].cooc = 2
    /\ G.edge[<<chicken, garlic>>].rating_sum = Frac(17, 2)

\* C1 as stated: built from the three recipes of the scenario with max_recipes = 3,
\* whatever the iteration orders, node chicken has count 3 and edge
\* {chicken, garlic} cooc 2 and rating_sum 8.5, and the query base = [chicken],
\* goal default, min_cooc 1, top_k 2 returns [garlic, rice].
C1_EndToEndAsStated ==
    (rows = E2E /\ max_recipes = 3 /\ Built) =>
        /\ E2EGraph
        /\ (pc = "answered" /\ query = E2EQuery) => result = <<garlic, rice>>

\* C1, amended: as above, but the query returns [garlic, lemon]: lemon and rice
\* both score 1 and lemon became a neighbour of chicken first.
C1_EndToEnd ==
    (rows = E2E /\ max_recipes = 3 /\ Built) =>
        /\ E2EGraph
        /\ (pc = "answered" /\ query = E2EQuery) => result = <<garlic, lemon>>

C1_Witness ==
    rows = E2E /\ max_recipes = 3 /\ pc = "answered" /\ query = E2EQuery

(***************************************************************************)
(* C2                                                                      *)
(***************************************************************************)
C2_CountInv ==
    \A n \in Names :
        LET K == Containing({n})
        IN  /\ has_node(G, n) <=> K # {}
            /\ has_node(G, n) =>
                  /\ G.node[n].count = Cardinality(K)
                  /\ G.node[n].count <= Len(rows)

C2_NoDecrease ==
    \A n \in DOMAIN G.node : has_node(G', n) /\ G'.node[n].count >= G.node[n].count

\* C2: at every point of the build a node's count is the number of consumed rows
\* (index below max_recipes) of at least two distinct ingredients that contain it,
\* it is at most the number of rows processed, and it never decreases.
C2_Counts == [](DOMAIN G.node \subseteq Names /\ C2_CountInv) /\ [][C2_NoDecrease]_vars

C2_Witness ==
    /\ pc = "loop" /\ Len(rows) = 3
    /\ has_node(G, chicken) /\ G.node[chicken].count = 2
    /\ \E k \in 1..Len(rows) : rows[k].parts = <<ChickenRaw, RiceRaw, chicken>>

(***************************************************************************)
(* C3                                                                      *)
(***************************************************************************)
\* C3: for distinct A and B the edge exists iff a consumed row contains both, its
\* cooc is the number of such rows, its sums are those rows' valid ratings and
\* calories, and (A, B) and (B, A) carry the same record, whatever the orders the
\* rows' ingredients came in.
C3_Edges ==
    /\ \A e \in DOMAIN G.edge : e[1] \in Names /\ e[2] \in Names /\ e[1] # e[2]
    /\ \A A \in Names : \A B \in Names \ {A} :
          LET K == Containing({A, B})
          IN  /\ has_edge(G, A, B) <=> K # {}
              /\ has_edge(G, A, B) =>
                    /\ G.edge[<<A, B>>].cooc = Cardinality(K)
                    /\ G.edge[<<A, B>>].rating_sum = SumRating(K)
                    /\ G.edge[<<A, B>>].cal_sum = SumCalories(K)
                    /\ has_edge(G, B, A)
                    /\ G.edge[<<B, A>>] = G.edge[<<A, B>>]

C3_Witness ==
    /\ has_edge(G, chicken, rice) /\ G.edge[<<chicken, rice>>].cooc = 2
    /\ G.edge[<<rice, chicken>>].rating_sum = Frac(3, 1)
    /\ \E k \in 1..Len(rows) : rows[k].parts = <<ChickenRaw, RiceRaw, chicken>>

(***************************************************************************)
(* C4                                                                      *)
(***************************************************************************)
\* the step consumes a row: one more row, its index below the cap
Consumes == pc = "loop" /\ Len(rows') = Len(rows) + 1 /\ Len(rows) < max_recipes

\* C4: a step that consumes a row of fewer than two distinct ingredients leaves the
\* graph as it was and the loop running.
C4_SkipRule ==
    [][(Consumes /\ ~Qualifies(rows'[Len(rows')])) => (G' = G /\ pc' = "loop")]_vars

\* a row [salt, salt] was consumed after the graph had got nodes
C4_Witness ==
    /\ Len(rows) >= 2 /\ Len(rows) <= max_recipes
    /\ rows[Len(rows)].parts = <<salt, salt>>
    /\ has_node(G, chicken) /\ ~has_node(G, salt)

(***************************************************************************)
(* C5                                                                      *)
(***************************************************************************)
\* C5: a row of index >= max_recipes changes no node and no edge and ends the loop;
\* with max_recipes = 0 the graph stays empty.
C5_Cap ==
    /\ [][(pc = "loop" /\ Len(rows) >= max_recipes) => (G' = G /\ pc' = "finalize")]_vars
    /\ [](max_recipes = 0 => (DOMAIN G.node = {} /\ DOMAIN G.edge = {}))

\* a row that qualifies was pulled at index max_recipes, after consumed ones
C5_Witness ==
    /\ max_recipes = 1 /\ Len(rows) = 2 /\ Built
    /\ Qualifies(rows[1]) /\ Qualifies(rows[2]) /\ rows[2] # rows[1]
    /\ Ingredients(rows[2]) \ DOMAIN G.node # {}

(***************************************************************************)
(* C6                                                                      *)
(***************************************************************************)
Count(g, n) == IF has_node(g, n) THEN g.node[n].count ELSE 0

Cooc(g, a, b) == IF has_edge(g, a, b) THEN g.edge[<<a, b>>].cooc ELSE 0

NodeSum(g, n, f) == IF has_node(g, n) THEN g.node[n][f] ELSE Zero

EdgeSum(g, a, b, f) == IF has_edge(g, a, b) THEN g.edge[<<a, b>>][f] ELSE Zero

\* every ingredient and pair of the row counted once, field f grown by amount,
\* and the loop still running
Tolerated(row, f, amount) ==
    /\ pc' = "loop"
    /\ \A n \in Ingredients(row) :
          /\ Count(G', n) = Count(G, n) + 1
          /\ NodeSum(G', n, f) = RatAdd(NodeSum(G, n, f), amount)
    /\ \A a \in Ingredients(row) : \A b \in Ingredients(row) \ {a} :
          /\ Cooc(G', a, b) = Cooc(G, a, b) + 1
          /\ EdgeSum(G', a, b, f) = RatAdd(EdgeSum(G, a, b, f), amount)

\* C6: when a consumed row of at least two distinct ingredients has a missing or
\* unconvertible rating, its ingredients and pairs are still counted and its
\* calories, if valid, still added to the node and edge sums, the rating sums stay,
\* and the loop goes on; likewise with rating and calories exchanged.
C6_FieldTolerance ==
    [][LET row == rows'[Len(rows')]
       IN  (Consumes /\ Qualifies(row)) =>
              /\ ~Valid(row.AggregatedRating) =>
                    /\ Tolerated(row, "cal_sum", Amount(row, "Calories"))
                    /\ Tolerated(row, "rating_sum", Zero)
              /\ ~Valid(row.Calories) =>
                    /\ Tolerated(row, "rating_sum", Amount(row, "AggregatedRating"))
                    /\ Tolerated(row, "cal_sum", Zero)]_vars

\* a row with rating "abc" and calories 120, then a row with rating "4.5" and a
\* list for calories, were consumed: garlic counted twice, 4.5 and 120 in its sums
C6_Witness ==
    /\ Len(rows) = 2 /\ max_recipes >= 2
    /\ rows[1] = Row(<<lemon, garlic>>, Str(<<"a", "b", "c">>), Float(120, 1))
    /\ rows[2] = Row(<<rice, garlic>>, Str(<<"4", ".", "5">>), List)
    /\ G.node[garlic].count = 2 /\ G.node[garlic].rating_sum = Frac(9, 2)
    /\ G.node[garlic].cal_sum = Frac(120, 1)
    /\ G.edge[<<garlic, lemon>>].cooc = 1 /\ G.edge[<<garlic, lemon>>].cal_sum = Frac(120, 1)

(***************************************************************************)
(* C7                                                                      *)
(***************************************************************************)
\* C7: once built, every node has avg_rating with avg_rating * count = rating_sum,
\* which is 0 when rating_sum is 0, and avg_calories likewise from cal_sum.
C7_Averages ==
    Built =>
        \A n \in DOMAIN G.node :
            LET data == G.node[n]
            IN  /\ {"avg_rating", "avg_calories"} \subseteq DOMAIN data
                /\ data.count > 0
                /\ data.avg_rating.d > 0 /\ data.avg_calories.d > 0
                /\ RatMul(data.avg_rating, FromInt(data.count)) = data.rating_sum
                /\ RatMul(data.avg_calories, FromInt(data.count)) = data.cal_sum
                /\ data.rating_sum = Zero => data.avg_rating = Zero
                /\ data.cal_sum = Zero => data.avg_calories = Zero

\* garlic in two rows with ratings 4.0 and "4.5": the average 8.5 / 2;
\* lemon in one row whose rating is 0: the average 0
C7_Witness ==
    /\ Built
    /\ has_node(G, garlic) /\ G.node[garlic].count = 2
    /\ G.node[garlic].rating_sum = Frac(17, 2)
    /\ G.node[garlic].avg_rating = Frac(17, 4)
    /\ has_node(G, lemon) /\ G.node[lemon].count = 1
    /\ G.node[lemon].rating_sum = Zero /\ G.node[lemon].avg_rating = Zero

(***************************************************************************)
(* What the graph and the query say, for the properties of the scorer.     *)
(***************************************************************************)
\* the normalized base ingredients of the query
BaseNorm == {NormOf[query.base_ings[k]] : k \in 1..Len(query.base_ings)}

\* the edge {b, n} exists and reaches the threshold of the query
Linked(b, n) ==
    has_node(G, b) /\ has_edge(G, b, n) /\ G.edge[<<b, n>>].cooc >= query.min_cooc

\* the candidates that survive: linked to a base ingredient, no base ingredient
Survivors == {n \in DOMAIN G.node \ BaseNorm : \E b \in BaseNorm : Linked(b, n)}

\* the contributions to n of the base ingredients from position k on
RECURSIVE ScoreFrom(_, _)
ScoreFrom(n, k) ==
    IF k > Len(query.base_ings) THEN Zero
    ELSE LET b == NormOf[query.base_ings[k]]
         IN  RatAdd(IF Linked(b, n)
                    THEN contribution(query.goal, G.edge[<<b, n>>].cooc, G.node[n])
                    ELSE Zero,
                    ScoreFrom(n, k + 1))

Score(n) == ScoreFrom(n, 1)

Min(a, b) == IF a < b THEN a ELSE b

(***************************************************************************)
(* C8                                                                      *)
(***************************************************************************)
\* C8: no name of the returned list is the normalized form of a base ingredient.
C8_BaseExclusion ==
    pc = "answered" => \A k \in 1..Len(result) : result[k] \notin BaseNorm

\* base " Chicken " and garlic, neighbours of each other above the threshold
C8_Witness ==
    /\ pc = "answered" /\ query.base_ings = <<ChickenRaw, garlic>>
    /\ Linked(chicken, garlic) /\ Len(result) = 2

(***************************************************************************)
(* C9                                                                      *)
(***************************************************************************)
\* C9: every returned name has an edge of cooc >= min_cooc to a base ingredient
\* that is a node of the graph.
C9_Threshold ==
    pc = "answered" =>
        \A k \in 1..Len(result) : \E b \in BaseNorm : Linked(b, result[k])

\* base chicken, min_cooc 2: garlic (cooc 2) returned, lemon (cooc 1) not
C9_Witness ==
    /\ pc = "answered" /\ query.base_ings = <<chicken>>
    /\ query.min_cooc = 2 /\ query.top_k = 2
    /\ has_edge(G, chicken, lemon) /\ G.edge[<<chicken, lemon>>].cooc = 1
    /\ result = <<garlic>>

(***************************************************************************)
(* C10                                                                     *)
(***************************************************************************)
\* C10: for top_k >= 0 the returned list has no duplicates, holds
\* min(top_k, number of surviving candidates) surviving candidates in
\* non-increasing order of score, and no candidate left out scores more than a
\* returned one.
C10_Ranking ==
    (pc = "answered" /\ query.top_k >= 0) =>
        /\ \A j \in 1..Len(result) : \A k \in 1..Len(result) :
              result[j] = result[k] => j = k
        /\ Len(result) = Min(query.top_k, Cardinality(Survivors))
        /\ Len(result) <= query.top_k
        /\ \A k \in 1..Len(result) : result[k] \in Survivors
        /\ \A k \in 1..(Len(result) - 1) :
              RatLeq(Score(result[k + 1]), Score(result[k]))
        /\ \A n \in Survivors \ Range(result) : \A k \in 1..Len(result) :
              RatLeq(Score(n), Score(result[k]))

\* three candidates, the one returned scoring more than one left out
C10_Witness ==
    /\ pc = "answered" /\ query.top_k = 1 /\ Len(result) = 1
    /\ query.goal = "high_rating"
    /\ Cardinality(Survivors) = 3
    /\ \E n \in Survivors : RatLess(Score(n), Score(result[1]))

(***************************************************************************)
(* C11                                                                     *)
(***************************************************************************)
\* the scores dict of the call of the state, as the code leaves it
QueryScores == final_scores(G, query.base_ings, query.goal, query.min_cooc)

\* the sum of the cooc of the edges from the entries of the base list, from
\* position k on, that link to n
RECURSIVE CoocFrom(_, _)
CoocFrom(n, k) ==
    IF k > Len(query.base_ings) THEN 0
    ELSE LET b == NormOf[query.base_ings[k]]
         IN  (IF Linked(b, n) THEN G.edge[<<b, n>>].cooc ELSE 0) + CoocFrom(n, k + 1)

\* C11: the candidates of the scores dict are the surviving ones, and the score of
\* each is the sum, over the entries of the base list that are in the graph and
\* have an edge to it of cooc >= min_cooc, of the contribution of that edge;
\* under a goal that is none of high_rating and healthy, the sum of the cooc.
C11_Additive ==
    pc = "answered" =>
        LET scores == QueryScores
        IN  /\ {scores[k][1] : k \in 1..Len(scores)} = Survivors
            /\ \A k \in 1..Len(scores) :
                  LET n == scores[k][1]
                  IN  /\ scores[k][2] = Score(n)
                      /\ query.goal \notin {"high_rating", "healthy"} =>
                            scores[k][2] = FromInt(CoocFrom(n, 1))

\* base chicken and garlic, goal default: lemon, linked to both, scores the sum
C11_Witness ==
    /\ pc = "answered" /\ query.base_ings = <<chicken, garlic>>
    /\ query.goal = "default" /\ query.min_cooc = 1
    /\ Linked(chicken, lemon) /\ Linked(garlic, lemon)
    /\ G.edge[<<chicken, lemon>>].cooc = 2 /\ G.edge[<<garlic, lemon>>].cooc = 2
    /\ scores_get(QueryScores, lemon) = FromInt(4)

(***************************************************************************)
(* C12                                                                     *)
(***************************************************************************)
\* C12: a call whose goal is none of default, high_rating and healthy returns the
\* list the call with goal default returns on the same graph, base list, top_k
\* and min_cooc.
C12_GoalFallback ==
    (pc = "answered" /\ query.goal \notin {"default", "high_rating", "healthy"}) =>
        result = suggest_neighbors_scored(G, query.base_ings, "default",
                                          query.top_k, query.min_cooc)

\* goal "Healthy" on a graph where goal healthy ranks otherwise than default
C12_Witness ==
    /\ pc = "answered" /\ query.goal = "Healthy" /\ Len(result) = 2
    /\ result # suggest_neighbors_scored(G, query.base_ings, "healthy",
                                         query.top_k, query.min_cooc)

(***************************************************************************)
(* C13                                                                     *)
(***************************************************************************)
\* C13: with a single base ingredient and two neighbours whose edges to it have
\* the same cooc >= min_cooc, goal high_rating scores the neighbour of the higher
\* avg_rating at least as high, goal healthy scores the neighbour of the lower
\* avg_calories at least as high, and the healthy score of a neighbour of
\* non-negative avg_calories lies between cooc and 2 * cooc.
C13_Monotone ==
    (pc = "answered" /\ Len(query.base_ings) = 1) =>
        LET scores == QueryScores
            b == NormOf[query.base_ings[1]]
        IN  \A n1 \in Survivors :
               LET cooc == G.edge[<<b, n1>>].cooc
                   s1 == scores_get(scores, n1)
               IN  /\ (query.goal = "healthy" /\ RatLeq(Zero, G.node[n1].avg_calories)) =>
                          /\ RatLeq(FromInt(cooc), s1)
                          /\ RatLeq(s1, FromInt(2 * cooc))
                   /\ \A n2 \in Survivors :
                         G.edge[<<b, n2>>].cooc = cooc =>
                            LET s2 == scores_get(scores, n2)
                            IN  /\ (/\ query.goal = "high_rating"
                                    /\ RatLeq(G.node[n2].avg_rating, G.node[n1].avg_rating)) =>
                                       RatLeq(s2, s1)
                                /\ (/\ query.goal = "healthy"
                                    /\ RatLeq(G.node[n1].avg_calories, G.node[n2].avg_calories)) =>
                                       RatLeq(s2, s1)

\* base chicken, goal healthy, garlic and rice both met once with chicken, and
\* garlic of the lower avg_calories scored strictly higher
C13_Witness ==
    /\ pc = "answered" /\ query.base_ings = <<chicken>> /\ query.goal = "healthy"
    /\ query.min_cooc = 1
    /\ {garlic, rice} \subseteq Survivors
    /\ G.edge[<<chicken, garlic>>].cooc = 1 /\ G.edge[<<chicken, rice>>].cooc = 1
    /\ RatLess(G.node[garlic].avg_calories, G.node[rice].avg_calories)
    /\ RatLess(scores_get(QueryScores, rice), scores_get(QueryScores, garlic))

(***************************************************************************)
(* C14                                                                     *)
(***************************************************************************)
\* the entries of the base list whose normalized name is a node of the graph
Present(base_ings) == Filter(base_ings, {b \in BaseNames : has_node(G, NormOf[b])})

\* C14: the call returns the empty list when no base ingredient is a node of the
\* graph, when every edge at a base ingredient is below min_cooc, and when every
\* candidate that reaches min_cooc is itself a base ingredient; and the base
\* ingredients the graph lacks can be left out of the base list without changing
\* the returned list.
C14_LookupMiss ==
    pc = "answered" =>
        LET InGraph == {b \in BaseNorm : has_node(G, b)}
        IN  /\ InGraph = {} => result = <<>>
            /\ (\A b \in InGraph : \A n \in Range(G.adj[b]) :
                   G.edge[<<b, n>>].cooc < query.min_cooc) => result = <<>>
            /\ (\A b \in InGraph : \A n \in Range(G.adj[b]) :
                   G.edge[<<b, n>>].cooc >= query.min_cooc => n \in BaseNorm) =>
                  result = <<>>
            /\ result = suggest_neighbors_scored(G, Present(query.base_ings), query.goal,
                                                 query.top_k, query.min_cooc)

\* tofu is no node, chicken is one with neighbours, all below the threshold
C14_Witness ==
    /\ pc = "answered" /\ query.base_ings = <<tofu, chicken>>
    /\ query.top_k = 2 /\ query.min_cooc = 2
    /\ ~has_node(G, tofu) /\ has_node(G, chicken) /\ Len(G.adj[chicken]) >= 2
    /\ result = <<>>

(***************************************************************************)
(* C15                                                                     *)
(***************************************************************************)
\* c and d are one character, or the two cases of one letter
SameLetter(c, d) ==
    c = d \/ \E k \in 1..26 : {c, d} = {UpperChars[k], LowerChars[k]}

\* p and q differ only in letter case and in leading and trailing whitespace:
\* behind i characters of whitespace in p and k in q come n characters that
\* agree up to case, and only whitespace follows
Equivalent(p, q) ==
    \E i \in 0..Len(p), k \in 0..Len(q) :
       /\ \A m \in 1..i : p[m] \in Whitespace
       /\ \A m \in 1..k : q[m] \in Whitespace
       /\ \E n \in 0..Min(Len(p) - i, Len(q) - k) :
             /\ \A m \in 1..n : SameLetter(p[i + m], q[k + m])
             /\ \A m \in (i + n + 1)..Len(p) : p[m] \in Whitespace
             /\ \A m \in (k + n + 1)..Len(q) : q[m] \in Whitespace

\* C15: normalizing a raw ingredient string twice gives what normalizing it once
\* gives, and two raw strings of a row that differ only in letter case and in
\* leading and trailing whitespace get the same key, so that the row makes one
\* node of them at most, and no edge between them.
C15_Normalization ==
    \A k \in 1..Len(rows) :
       \A p \in Range(rows[k].parts), q \in Range(rows[k].parts) :
          /\ normalize_ing(normalize_ing(p)) = normalize_ing(p)
          /\ Equivalent(p, q) =>
                /\ normalize_ing(p) = normalize_ing(q)
                /\ Cardinality(DOMAIN G.node \cap {normalize_ing(p), normalize_ing(q)}) <= 1
                /\ ~has_edge(G, normalize_ing(p), normalize_ing(q))

\* the row [' A ', 'a'] was handed to add_recipe_to_graph, and made no node
C15_Witness ==
    /\ pc = "built" /\ Len(rows) = 1
    /\ rows[1].parts = << <<" ", "A", " ">>, <<"a">> >>
    /\ Len(get_ingredients(rows[1])) = 2
    /\ Equivalent(rows[1].parts[1], rows[1].parts[2])
    /\ normalize_ing(rows[1].parts[1]) = <<"a">>
    /\ DOMAIN G.node = {}

(***************************************************************************)
(* C16                                                                     *)
(***************************************************************************)
\* the base list with every ingredient named once: the first entry of each
\* normalized name, in the order of the list
Once(base_ings) ==
    LET first == {k \in 1..Len(base_ings) :
                     \A j \in 1..(k - 1) : NormOf[base_ings[j]] # NormOf[base_ings[k]]}
        At[k \in 0..Len(base_ings)] ==
            IF k = 0 THEN <<>>
            ELSE IF k \in first THEN Append(At[k - 1], base_ings[k]) ELSE At[k - 1]
    IN  At[Len(base_ings)]

\* C16: a call whose base list names an ingredient more than once leaves the
\* scores, and returns the list, of the call whose base list names it once.
C16_BaseIdentity ==
    pc = "answered" =>
        LET once == Once(query.base_ings)
        IN  /\ QueryScores = final_scores(G, once, query.goal, query.min_cooc)
            /\ result = suggest_neighbors_scored(G, once, query.goal,
                                                 query.top_k, query.min_cooc)

\* the call with ['chicken', ' Chicken ', 'garlic'] returned ['rice'], the call
\* with ['chicken', 'garlic'] returns ['lemon']
C16_Witness ==
    /\ pc = "answered" /\ query.base_ings = <<chicken, ChickenRaw, garlic>>
    /\ query.goal = "default" /\ query.top_k = 1 /\ query.min_cooc = 1
    /\ Once(query.base_ings) = <<chicken, garlic>>
    /\ result = <<rice>>
    /\ suggest_neighbors_scored(G, <<chicken, garlic>>, "default", 1, 1) = <<lemon>>
    /\ scores_get(QueryScores, rice) = FromInt(4)
    /\ scores_get(final_scores(G, <<chicken, garlic>>, "default", 1), rice) = FromInt(2)

(***************************************************************************)
(* C17                                                                     *)
(***************************************************************************)
\* C17: build_graph pulls at most max_recipes rows from the record source.
C17_PullBound == Len(rows) <= max_recipes

\* the loop has ended by break, and one row more than max_recipes was pulled
C17_Witness ==
    /\ pc = "finalize" /\ max_recipes = 2
    /\ Len(rows) = max_recipes + 1
    /\ Consumed = SubSeq(rows, 1, max_recipes)

(***************************************************************************)
(* C18                                                                     *)
(***************************************************************************)
\* the candidates in the order the loops meet them: for the base ingredients
\* from position k on, in the order of the list, the neighbours that reach the
\* threshold, in adjacency order
RECURSIVE EncounterFrom(_)
EncounterFrom(k) ==
    IF k > Len(query.base_ings) THEN <<>>
    ELSE LET b == NormOf[query.base_ings[k]]
             met == IF has_node(G, b)
                    THEN Filter(G.adj[b], {n \in Range(G.adj[b]) : Linked(b, n)})
                    ELSE <<>>
         IN  met \o EncounterFrom(k + 1)

\* the position at which the loops first meet n
FirstAt(enc, n) == CHOOSE i \in 1..Len(enc) : enc[i] = n /\ \A j \in 1..(i - 1) : enc[j] # n

SameScore(a, b) == RatLeq(Score(a), Score(b)) /\ RatLeq(Score(b), Score(a))

\* C18: of two returned candidates of equal score the one the loops met first
\* comes first, and a candidate left out that scores as much as a returned one
\* was met after it.
C18_TieBreak ==
    pc = "answered" =>
        LET enc == EncounterFrom(1)
        IN  /\ \A j \in 1..Len(result) : \A k \in (j + 1)..Len(result) :
                  SameScore(result[j], result[k]) =>
                     FirstAt(enc, result[j]) < FirstAt(enc, result[k])
            /\ query.top_k >= 0 =>
                  \A n \in Survivors \ Range(result) : \A k \in 1..Len(result) :
                     SameScore(n, result[k]) => FirstAt(enc, result[k]) < FirstAt(enc, n)

\* garlic and rice score the same, rice was met first and is returned first
C18_Witness ==
    /\ pc = "answered" /\ query.base_ings = <<chicken>> /\ query.goal = "default"
    /\ query.top_k = 2 /\ query.min_cooc = 1
    /\ has_node(G, chicken) /\ G.adj[chicken] = <<rice, garlic>>
    /\ SameScore(rice, garlic)
    /\ result = <<rice, garlic>>

C20_Consistency ==
    /\ \A n \in DOMAIN G.node :
          /\ G.node[n].count >= 1
          /\ \E m \in DOMAIN G.node : m # n /\ has_edge(G, n, m)
    /\ \A e \in DOMAIN G.edge :
          /\ e[1] # e[2]
          /\ e[1] \in DOMAIN G.node /\ e[2] \in DOMAIN G.node
          /\ 1 <= G.edge[e].cooc
          /\ G.edge[e].cooc <= Min(G.node[e[1]].count, G.node[e[2]].count)

\* in the loop, three rows processed: chicken in three, garlic in two, both in two
C20_Witness ==
    /\ pc = "loop" /\ Len(rows) = 3 /\ max_recipes = 3
    /\ has_edge(G, chicken, garlic)
    /\ G.node[chicken].count = 3 /\ G.node[garlic].count = 2
    /\ G.edge[<<chicken, garlic>>].cooc = 2
    /\ has_edge(G, chicken, rice) /\ G.edge[<<chicken, rice>>].cooc = 1

====
